---- MODULE Spec2Model ----
(***************************************************************************)
(* Real-time collaboration session manager of research-collab-backend:     *)
(* websocket/manager.py (ConnectionManager) and the two endpoint handlers  *)
(* of routers/websocket_routes.py, as an asyncio state machine.            *)
(*                                                                         *)
(* One step of the model is what one task executes between two suspension  *)
(* points (an await that yields): nothing else runs in between.  The       *)
(* suspension points are websocket.accept, each connection.send_json of a  *)
(* broadcast, the presence send_json, and websocket.receive_*.             *)
(*                                                                         *)
(* Python set iteration (broadcast iterates the room's live set): the      *)
(* iterator remembers the size of the set when it was created and a        *)
(* cursor into the hash table.  Each __next__ first compares the current   *)
(* size with the remembered one and raises RuntimeError when they differ,  *)
(* otherwise it yields the next occupied slot after the cursor.  Slot      *)
(* order is modelled by the order of connection numbers.                   *)
(***************************************************************************)
EXTENDS Integers, Sequences, FiniteSets, TLC

\* ---------------------------------------------------------------- bounds
NConn == 3
MaxFrames == 2
MaxFaults == 1
MaxOps == 3
MaxRoomOps == 2
MaxBroken == 2

Conns == 1..NConn
NoConn == 0

\* get_user_from_token returns one of two identities
Users == {"user_123", "user_default"}
Kinds == {"doc", "chat"}

user_name(user_id) == IF user_id = "user_123" THEN "Test User" ELSE "Anonymous User"

\* a room named by the subject identifier alone
room_id_of_untagged(kind) == "1"

\* room_id = f"doc_{document_id}" / f"chat_{project_id}", same subject id "1"
room_id_of(kind) == IF kind = "doc" THEN "doc_1" ELSE "chat_1"

Rooms == {room_id_of(k) : k \in Kinds}

user_color(kind) == IF kind = "doc" THEN "#hash" ELSE "#3b82f6"

VARIABLES
    active_connections,   \* dict room_id -> set of connections
    user_presence,        \* dict room_id -> dict user_id -> info
    connection_registry,  \* dict connection -> <<room_id, user_id>>
    alive,                \* transport of each connection still open
    pc,                   \* position of each connection's handler
    session,              \* handler locals: endpoint kind and user_id
    bc,                   \* every broadcast invocation, by its id
    recv,                 \* per connection: ids of broadcasts delivered, in order
    presence_sent,        \* per connection: user set of the presence frame received
    calls,                \* log of the disconnect calls made
    nfaults,              \* transports found broken by a send so far
    budget,               \* client operations left: opens, frames, closes
    inbound,              \* every frame a handler has read, by its id
    chat_messages,        \* db.chat_messages: the documents inserted, in order
    pongs,                \* per connection: pong frames received
    unicast               \* the send_to_user call made, its iterator and its sends

vars == <<active_connections, user_presence, connection_registry, alive, pc,
          session, bc, recv, presence_sent, calls, nfaults, budget, inbound,
          chat_messages, pongs, unicast>>

\* ------------------------------------------------------------- dictionaries
EmptyDict == [x \in {} |-> 0]

DictSet(d, k, v) == [x \in (DOMAIN d) \cup {k} |-> IF x = k THEN v ELSE d[x]]

DictDel(d, k) == [x \in (DOMAIN d) \ {k} |-> d[x]]

\* no send_to_user call has been made
NoUnicast ==
    [st |-> "none", room |-> "", user |-> "", di_used |-> 0, pos |-> NoConn,
     failing |-> NoConn, targets |-> {}, sent |-> {}, failed |-> {}]

\* the state as one value, so that a call is a function from state to state
World ==
    [ac |-> active_connections, up |-> user_presence, reg |-> connection_registry,
     alive |-> alive, pc |-> pc, bc |-> bc, recv |-> recv, ps |-> presence_sent, calls |-> calls,
     nfaults |-> nfaults, inbound |-> inbound, chat_messages |-> chat_messages,
     pongs |-> pongs, uc |-> unicast]

Apply(w) ==
    /\ active_connections' = w.ac
    /\ user_presence' = w.up
    /\ connection_registry' = w.reg
    /\ alive' = w.alive
    /\ pc' = w.pc
    /\ bc' = w.bc
    /\ recv' = w.recv
    /\ presence_sent' = w.ps
    /\ calls' = w.calls
    /\ nfaults' = w.nfaults
    /\ inbound' = w.inbound
    /\ chat_messages' = w.chat_messages
    /\ pongs' = w.pongs
    /\ unicast' = w.uc

\* ------------------------------------------------------------ inbound frames
\* A text is a sequence of characters.  str.strip() drops the whitespace at both
\* ends.
RECURSIVE lstrip(_)
lstrip(text) ==
    IF text # <<>> /\ Head(text) = " " THEN lstrip(Tail(text)) ELSE text

RECURSIVE rstrip(_)
rstrip(text) ==
    IF text # <<>> /\ text[Len(text)] = " "
    THEN rstrip(SubSeq(text, 1, Len(text) - 1))
    ELSE text

\* the content taken as it came
strip_nothing(text) == text

strip(text) == rstrip(lstrip(text))

\* a JSON value of a field "content": a string, or something that is not one
Str(text) == [t |-> "str", chars |-> text]

NotStr == [t |-> "int", chars |-> <<>>]

\* Python's None, where a key is missing
None == "<None>"

\* dict.get(key, default); a dict with string keys is a record
Get(d, key, default) == IF key \in DOMAIN d THEN d[key] ELSE default

\* What json.loads makes of the text of a frame: it raises JSONDecodeError, or
\* returns a value that is not a dict, or returns a dict
NotJson == [json |-> "invalid", obj |-> EmptyDict]

NotObject == [json |-> "value", obj |-> EmptyDict]

Object(d) == [json |-> "object", obj |-> d]

\* the frames a client sends in the runs that only relay: one of each relayed type
SyncFrame == Object([type |-> "sync", update |-> "u1"])

MessageFrame == Object([type |-> "message", content |-> Str(<<"h">>)])

TypingFrame == Object([type |-> "typing", is_typing |-> "true"])

\* the frames a client sends in the runs that exercise the protocol: unparseable
\* text, JSON that is not an object, every type either endpoint knows, an unknown
\* type, no type, and chat messages whose content is padded text, blank text,
\* not text, or missing
AllFrames ==
    {NotJson, NotObject, SyncFrame, TypingFrame}
    \cup {Object([type |-> t, data |-> "d1"]) :
             t \in {"awareness", "cursor", "ping", "bogus"}}
    \cup {Object([data |-> "d1"])}
    \cup {Object([type |-> "message", content |-> b]) :
             b \in {Str(<<" ", "h", " ">>), Str(<<" ">>), NotStr}}
    \cup {Object([type |-> "message"])}


\* ------------------------------------------------------- ConnectionManager

\* connect, lines 37-39: create the room's set on first use and add the connection
AddConnection(ac, room_id, websocket) ==
    IF room_id \in DOMAIN ac
    THEN DictSet(ac, room_id, ac[room_id] \cup {websocket})
    ELSE DictSet(ac, room_id, {websocket})

\* connect, lines 42-49: (over)write the presence entry of user_id
RegisterPresence(up, room_id, user_id, name, color) ==
    LET info == [name |-> name, color |-> color, status |-> "online"]
        old == IF room_id \in DOMAIN up THEN up[room_id] ELSE EmptyDict
    IN DictSet(up, room_id, DictSet(old, user_id, info))

\* connect without line 52
RegisterForCleanup_skipped(reg, websocket, room_id, user_id) == reg

\* connect, line 52
RegisterForCleanup(reg, websocket, room_id, user_id) ==
    DictSet(reg, websocket, <<room_id, user_id>>)

\* disconnect without lines 80-85: the connection stays in its room's set
RemoveConnection_kept(ac, room_id, websocket) == ac

\* disconnect without lines 84-85: the emptied set stays in the table
RemoveConnection_leaky(ac, room_id, websocket) ==
    IF room_id \in DOMAIN ac
    THEN DictSet(ac, room_id, ac[room_id] \ {websocket})
    ELSE ac

\* disconnect, lines 80-85: discard, and delete the room when its set is empty
RemoveConnection(ac, room_id, websocket) ==
    IF room_id \in DOMAIN ac
    THEN LET s == ac[room_id] \ {websocket}
         IN IF s = {} THEN DictDel(ac, room_id) ELSE DictSet(ac, room_id, s)
    ELSE ac

\* disconnect, line 88: the condition under which presence is removed
HasPresence(up, room_id, user_id) ==
    room_id \in DOMAIN up /\ user_id \in DOMAIN up[room_id]

\* disconnect without lines 90-94: the presence entry stays
RemovePresence_kept(up, room_id, user_id) == up

\* disconnect, lines 90-94: delete the entry, and the room's map when empty
RemovePresence(up, room_id, user_id) ==
    LET p == DictDel(up[room_id], user_id)
    IN IF DOMAIN p = {} THEN DictDel(up, room_id) ELSE DictSet(up, room_id, p)

\* disconnect, line 99: user_left is scheduled only if the room still exists
RoomStillExists(ac, room_id) == room_id \in DOMAIN ac

\* disconnect without line 110: the entry stays
RemoveFromRegistry_kept(reg, websocket) == reg

\* disconnect, line 110
RemoveFromRegistry(reg, websocket) == DictDel(reg, websocket)

\* the announcements, lines 57-62 and 102-106
user_joined(user_id, name, color) ==
    [type |-> "user_joined", user_id |-> user_id, user_name |-> name,
     user_color |-> color]

user_left(user_id, name) ==
    [type |-> "user_left", user_id |-> user_id, user_name |-> name]

\* a broadcast invocation; si_used, pos, stale are the state of its set iterator
\* and dead is dead_connections.  While it runs it also carries two notes for the
\* properties below: stay, the members at its start that are still registered,
\* and disturbed, whether a connection joined or left its room since it started.
BroadcastRecord(room_id, message, exclude, owner, ctx, st, members) ==
    [room |-> room_id, type |-> message.type, message |-> message, exclude |-> exclude,
     owner |-> owner, ctx |-> ctx, st |-> st,
     si_used |-> Cardinality(members), pos |-> 0, stale |-> FALSE, dead |-> {},
     stay |-> members, disturbed |-> FALSE]

\* what the iterators of the broadcasts suspended in room_id see of a discard
\* (and of the deletion of the room's set, which leaves them on the old object)
OnDiscard(bcs, room_id, websocket, deleted) ==
    [b \in DOMAIN bcs |->
        IF bcs[b].st = "run" /\ bcs[b].room = room_id
        THEN [bcs[b] EXCEPT !.stay = @ \ {websocket}, !.disturbed = TRUE,
                            !.stale = @ \/ deleted]
        ELSE bcs[b]]

\* what the suspended broadcasts of room_id see of an add: the size changes
OnAdd(bcs, room_id) ==
    [b \in DOMAIN bcs |->
        IF bcs[b].st = "run" /\ bcs[b].room = room_id
        THEN [bcs[b] EXCEPT !.disturbed = TRUE]
        ELSE bcs[b]]

\* A broadcast is named <<c, k>>: k = 0 is the user_joined of c's connect, k > 0
\* is the relay of the k-th frame c's handler read, k < 0 is the (-k)-th
\* user_left scheduled for c.
JoinId(c) == <<c, 0>>

FrameId(frames, c) == <<c, 1 + Cardinality({b \in DOMAIN frames : b[1] = c})>>

LeftId(bcs, c) == <<c, -1 - Cardinality({b \in DOMAIN bcs : b[1] = c /\ b[2] < 0})>>

\* disconnect, lines 100-107: asyncio.create_task(self.broadcast(room, user_left))
\* the task starts at a later turn of the event loop
CreateLeftTask(bcs, room_id, websocket, user_id, name) ==
    DictSet(bcs, LeftId(bcs, websocket),
            BroadcastRecord(room_id, user_left(user_id, name), NoConn, NoConn,
                            "task", "new", {}))

\* ConnectionManager.disconnect
disconnect(w, websocket) ==
    IF websocket \notin DOMAIN w.reg
    THEN w
    ELSE LET room_id == w.reg[websocket][1]
             user_id == w.reg[websocket][2]
             ac1 == RemoveConnection(w.ac, room_id, websocket)
             bc1 == OnDiscard(w.bc, room_id, websocket, room_id \notin DOMAIN ac1)
             present == HasPresence(w.up, room_id, user_id)
             up1 == IF present THEN RemovePresence(w.up, room_id, user_id) ELSE w.up
             bc2 == IF present /\ RoomStillExists(ac1, room_id)
                    THEN CreateLeftTask(bc1, room_id, websocket, user_id,
                                        Get(w.up[room_id][user_id], "name", "Anonymous"))
                    ELSE bc1
         IN [w EXCEPT !.ac = ac1, !.up = up1, !.bc = bc2,
                      !.reg = RemoveFromRegistry(w.reg, websocket)]

\* a call of disconnect, with what it did written to the call log
DisconnectCall(w, websocket, via) ==
    LET w2 == disconnect(w, websocket)
        registered == websocket \in DOMAIN w.reg
        entry == [conn |-> websocket, via |-> via, registered |-> registered,
                  changed |-> (w2.ac # w.ac \/ w2.up # w.up \/ w2.reg # w.reg),
                  announced |-> (DOMAIN w2.bc # DOMAIN w.bc),
                  last |-> registered /\
                           ~\E o \in (DOMAIN w.reg) \ {websocket} :
                               w.reg[o] = w.reg[websocket],
                  others |-> registered /\
                             \E o \in (DOMAIN w.reg) \ {websocket} :
                                 w.reg[o][1] = w.reg[websocket][1]]
    IN [w2 EXCEPT !.calls = @ \cup {entry}]

\* a handler that returns without its finally clause
HandlerExit_no_finally(w, c) == [w EXCEPT !.pc[c] = "closed", !.alive[c] = FALSE]

\* the handler's "finally: manager.disconnect(websocket)" and its return
HandlerExit(w, c) ==
    DisconnectCall([w EXCEPT !.pc[c] = "closed", !.alive[c] = FALSE], c, "final")

\* ------------------------------------------------------------- broadcast

\* set iterator __next__: the first member after the cursor, NoConn when exhausted
NextAfter(members, pos) ==
    LET ahead == {x \in members : x > pos}
    IN IF ahead = {} THEN NoConn
       ELSE CHOOSE x \in ahead : \A y \in ahead : x <= y

\* set iterator __next__: "Set changed size during iteration"
SizeChanged(r, ac) ==
    r.stale \/ Cardinality(ac[r.room]) # r.si_used

\* broadcast without the test of line 128
NotExcluded_always(connection, exclude) == TRUE

\* broadcast, line 128
NotExcluded(connection, exclude) == connection # exclude

\* the broadcast is over: its iterator, its list and its notes are dropped
Ended(r, st) ==
    [r EXCEPT !.st = st, !.si_used = 0, !.pos = 0, !.stale = FALSE, !.dead = {},
              !.stay = {}, !.disturbed = FALSE]

\* broadcast, lines 129-133: one send_json, or the failure caught and remembered.
\* ok = FALSE: the transport of the connection is found broken by this send
Deliver(w, b, connection, ok) ==
    IF w.alive[connection] /\ ok
    THEN [w EXCEPT !.bc[b].pos = connection, !.recv[connection] = Append(@, b)]
    ELSE [w EXCEPT !.bc[b].pos = connection, !.bc[b].dead = @ \cup {connection},
                   !.alive[connection] = FALSE,
                   !.nfaults = IF w.alive[connection] THEN @ + 1 ELSE @]

\* broadcast, lines 136-137: disconnect every dead connection, in list order
RECURSIVE EvictAll(_, _)
EvictAll(w, dead) ==
    IF dead = {} THEN w
    ELSE LET c == NextAfter(dead, NoConn)
         IN EvictAll(DisconnectCall(w, c, "evict"), dead \ {c})

\* what the caller of a broadcast that returned does up to its next await:
\* connect sends the presence frame (lines 65-68) and the handler enters its loop;
\* a handler goes back to receive; a task ends
AfterReturn(w, b, ok) ==
    LET r == w.bc[b]
        c == r.owner
    IN CASE r.ctx = "join" ->
              IF r.room \notin DOMAIN w.up
              THEN HandlerExit(w, c)                   \* KeyError at line 67
              ELSE IF w.alive[c] /\ ok
                   THEN [w EXCEPT !.ps[c] = DOMAIN w.up[r.room], !.pc[c] = "recv"]
                   ELSE HandlerExit([w EXCEPT !.nfaults =      \* send_json raises
                                        IF w.alive[c] THEN @ + 1 ELSE @], c)
         [] r.ctx = "frame" -> [w EXCEPT !.pc[c] = "recv"]
         [] r.ctx = "api" ->                    \* connect called outside a handler
              IF r.room \notin DOMAIN w.up THEN w
              ELSE IF w.alive[c] /\ ok
                   THEN [w EXCEPT !.ps[c] = DOMAIN w.up[r.room]]
                   ELSE [w EXCEPT !.alive[c] = FALSE,
                                  !.nfaults = IF w.alive[c] THEN @ + 1 ELSE @]
         [] OTHER -> w

\* where an exception raised by a broadcast goes: out of connect and out of the
\* chat loop to the handler's outer except (lines 118-121, 214-217); in the
\* document loop to the inner except (line 113), unless the broadcast is the one
\* of line 109, made inside the except clause of line 106, whose exception no
\* sibling clause catches; in a task, nowhere
AfterRaise(w, b) ==
    LET r == w.bc[b]
        c == r.owner
    IN CASE r.ctx = "join" -> HandlerExit(w, c)
         [] r.ctx = "frame" ->
              IF session[c].kind = "doc" /\ r.type # "binary_update"
              THEN [w EXCEPT !.pc[c] = "recv"]
              ELSE HandlerExit(w, c)
         [] OTHER -> w

\* broadcast, lines 135-137 and the return
Finish(w, b, ok) ==
    LET w1 == EvictAll([w EXCEPT !.bc[b] = Ended(@, "returned")], w.bc[b].dead)
    IN AfterReturn(w1, b, ok)

\* broadcast, line 127 raising RuntimeError: lines 135-137 are skipped
Raise(w, b) == AfterRaise([w EXCEPT !.bc[b] = Ended(@, "raised")], b)

\* broadcast, lines 127-133, from one suspension point to the next: the loop
\* runs on, skipping the excluded connection, until it awaits a send_json
Resume(w, b, ok) ==
    LET r == w.bc[b]
    IN IF SizeChanged(r, w.ac) THEN Raise(w, b)
       ELSE LET e1 == NextAfter(w.ac[r.room], r.pos)
                e2 == IF e1 # NoConn /\ ~NotExcluded(e1, r.exclude)
                      THEN NextAfter(w.ac[r.room], e1)
                      ELSE e1
            IN IF e2 = NoConn THEN Finish(w, b, ok)
               ELSE IF NotExcluded(e2, r.exclude) THEN Deliver(w, b, e2, ok)
               ELSE Finish(w, b, ok)

\* a handler that does not await its broadcast but goes on reading frames
AwaitingBroadcast_not == "recv"

\* where the handler of the awaiting connection is while its broadcast runs
AwaitingBroadcast == "bcast"

\* ConnectionManager.broadcast, called and awaited by owner (lines 122-133)
broadcast(w, b, room_id, message, exclude, owner, ctx, ok) ==
    LET w0 == [w EXCEPT !.pc[owner] = AwaitingBroadcast]
    IN IF room_id \notin DOMAIN w.ac
       THEN AfterReturn([w0 EXCEPT !.bc = DictSet(@, b,
                BroadcastRecord(room_id, message, exclude, owner, ctx,
                                "returned", {}))], b, ok)
       ELSE Resume([w0 EXCEPT !.bc = DictSet(@, b,
                BroadcastRecord(room_id, message, exclude, owner, ctx, "run",
                                w.ac[room_id]))], b, ok)

\* ConnectionManager.connect after accept, lines 36-62, up to the first await
connect(w, websocket, room_id, user_id, name, color, ok) ==
    LET w1 == [w EXCEPT
                 !.ac = AddConnection(@, room_id, websocket),
                 !.up = RegisterPresence(@, room_id, user_id, name, color),
                 !.reg = RegisterForCleanup(@, websocket, room_id, user_id),
                 !.bc = OnAdd(@, room_id)]
    IN broadcast(w1, JoinId(websocket), room_id, user_joined(user_id, name, color),
                 websocket, websocket, "join", ok)

\* the user_joined of a connect called for a connection that is registered
RejoinId(c) == <<c, 0, 1>>

\* ConnectionManager.connect called, by code other than the two handlers, for a
\* websocket that is registered already, and accept returning: lines 36-68 run as
\* for any connection, and an exception goes to that caller
connect_registered(w, websocket, room_id, user_id, name, color, ok) ==
    LET w1 == [w EXCEPT
                 !.ac = AddConnection(@, room_id, websocket),
                 !.up = RegisterPresence(@, room_id, user_id, name, color),
                 !.reg = RegisterForCleanup(@, websocket, room_id, user_id),
                 !.bc = OnAdd(@, room_id)]
        b == RejoinId(websocket)
    IN Resume([w1 EXCEPT !.bc = DictSet(@, b,
                  BroadcastRecord(room_id, user_joined(user_id, name, color),
                                  websocket, websocket, "api", "run",
                                  w1.ac[room_id]))], b, ok)

\* send_to_user from one suspension point to the next (lines 152-158).  The
\* iterator of connection_registry.items() raises when the dict has changed size
\* since it was made; a send_json that failed is followed by disconnect.
UnicastResume(w, ok) ==
    LET r == w.uc
        w1 == IF r.failing = NoConn THEN w
              ELSE DisconnectCall([w EXCEPT !.uc.failing = NoConn,
                                            !.uc.failed = @ \cup {r.failing}],
                                  r.failing, "unicast")
        ahead == {c \in DOMAIN w1.reg : c > r.pos /\ w1.reg[c] = <<r.room, r.user>>}
    IN IF Cardinality(DOMAIN w1.reg) # r.di_used
       THEN [w1 EXCEPT !.uc.st = "raised"]                 \* RuntimeError
       ELSE IF ahead = {} THEN [w1 EXCEPT !.uc.st = "returned"]
       ELSE LET connection == NextAfter(ahead, r.pos)
            IN IF w1.alive[connection] /\ ok
               THEN [w1 EXCEPT !.uc.pos = connection,
                               !.uc.sent = @ \cup {connection}]
               ELSE [w1 EXCEPT !.uc.pos = connection, !.uc.failing = connection,
                               !.alive[connection] = FALSE,
                               !.nfaults = IF w1.alive[connection] THEN @ + 1 ELSE @]

\* ConnectionManager.send_to_user, up to its first await (lines 139-154)
send_to_user(w, room_id, user_id, ok) ==
    IF room_id \notin DOMAIN w.ac
    THEN [w EXCEPT !.uc = [NoUnicast EXCEPT !.st = "returned", !.room = room_id,
                                           !.user = user_id]]
    ELSE UnicastResume([w EXCEPT !.uc =
             [NoUnicast EXCEPT !.st = "run", !.room = room_id, !.user = user_id,
                               !.di_used = Cardinality(DOMAIN w.reg),
                               !.targets = {c \in DOMAIN w.reg :
                                               w.reg[c] = <<room_id, user_id>>}]], ok)

\* websocket_health, lines 226-232
websocket_health ==
    [active_rooms |-> Cardinality(DOMAIN active_connections),
     total_connections |->
        Cardinality({<<r, c>> \in (DOMAIN active_connections) \X Conns :
                        c \in active_connections[r]})]

\* --------------------------------------------------------------- handlers

NoSession == [kind |-> "none", user |-> "none"]

\* the frames each endpoint relays when a client sends only well-formed frames of
\* that endpoint
RelayedFrames(kind) ==
    IF kind = "doc" THEN {SyncFrame} ELSE {MessageFrame, TypingFrame}

\* exclude=websocket for sync (line 82) and typing (line 203), none for message
\* (line 178)
ExcludeOf(type, websocket) == IF type = "message" THEN NoConn ELSE websocket

\* a document loop that relays whatever it reads
document_frame_relay_all(w, c, id, frame, ok) ==
    broadcast(w, id, room_id_of("doc"), [type |-> "relayed", data |-> frame],
              c, c, "frame", ok)

\* the loop body of websocket_document_collaboration for one text frame (lines
\* 76-114), up to its first await
document_frame(w, c, id, frame, ok) ==
    LET room_id == room_id_of("doc")
        user_id == session[c].user
        relay(message) ==
            broadcast(w, id, room_id, message, ExcludeOf(message.type, c), c,
                      "frame", ok)
    IN CASE frame.json = "invalid" ->                   \* JSONDecodeError, line 106
              relay([type |-> "binary_update", data |-> frame])
         [] frame.json = "value" -> w                   \* no .get: line 113
         [] OTHER ->
              LET message == frame.obj
                  message_type == Get(message, "type", None)
              IN CASE message_type = "sync" -> relay(message)
                   [] message_type = "awareness" ->
                        relay([type |-> "awareness", user_id |-> user_id,
                               user_name |-> user_name(user_id),
                               data |-> Get(message, "data", None)])
                   [] message_type = "cursor" ->
                        relay([type |-> "cursor", user_id |-> user_id,
                               user_name |-> user_name(user_id),
                               position |-> Get(message, "position", None),
                               selection |-> Get(message, "selection", None)])
                   [] OTHER -> w                        \* line 104

\* a pong sent to every connection
pong_to_all(w, websocket) == [w EXCEPT !.pongs = [c \in Conns |-> @[c] + 1]]

\* websocket.send_json({"type": "pong"}) delivered, line 207
pong(w, websocket) == [w EXCEPT !.pongs[websocket] = @ + 1]

\* the loop body of websocket_chat for one frame (lines 153-210), up to its first
\* await: receive_json raises on text that is not JSON, data.get on a value that
\* is not a dict, content.strip on a content that is not a string, and all three
\* leave the loop
chat_frame(w, c, id, frame, ok) ==
    LET room_id == room_id_of("chat")
        user_id == session[c].user
    IN IF frame.json # "object" THEN HandlerExit(w, c)
       ELSE LET data == frame.obj
                message_type == Get(data, "type", None)
            IN CASE message_type = "message" ->
                      LET content == Get(data, "content", Str(<<>>))
                      IN IF content.t # "str" THEN HandlerExit(w, c)
                         ELSE IF strip(content.chars) = <<>> THEN w
                         ELSE [w EXCEPT !.pc[c] = "insert"]       \* line 173
                 [] message_type = "typing" ->
                      broadcast(w, id, room_id,
                                [type |-> "typing", user_id |-> user_id,
                                 user_name |-> user_name(user_id),
                                 is_typing |-> Get(data, "is_typing", "false")],
                                ExcludeOf("typing", c), c, "frame", ok)
                 [] message_type = "ping" ->                      \* line 207
                      IF w.alive[c] /\ ok
                      THEN pong(w, c)
                      ELSE HandlerExit([w EXCEPT !.nfaults =
                                           IF w.alive[c] THEN @ + 1 ELSE @], c)
                 [] OTHER -> w                                    \* line 210

\* the id of the frame c's handler read last
LastFrame(frames, c) == <<c, Cardinality({b \in DOMAIN frames : b[1] = c})>>

\* message_doc, lines 162-170, with the _id the store assigns (lines 173-175);
\* utc_now() is named by the frame it was called for
message_doc(id, user_id, content, inserted_id) ==
    [_id |-> inserted_id, project_id |-> "1", user_id |-> user_id,
     user_name |-> user_name(user_id), content |-> content,
     timestamp |-> id, edited |-> FALSE, deleted |-> FALSE]

\* the event of lines 178-190: str(inserted_id), timestamp.isoformat()
chat_message(doc) ==
    [type |-> "message",
     data |-> [id |-> <<"str", doc._id>>, project_id |-> doc.project_id,
               user_id |-> doc.user_id, user_name |-> doc.user_name,
               content |-> doc.content,
               timestamp |-> <<"isoformat", doc.timestamp>>,
               edited |-> FALSE, deleted |-> FALSE]]

\* websocket_chat broadcasting the event whether insert_one raised or not
after_insert_unchecked(w, c, stored, ok) ==
    LET id == LastFrame(w.inbound, c)
        content == strip(Get(w.inbound[id].obj, "content", Str(<<>>)).chars)
        doc == message_doc(id, session[c].user, content, Len(w.chat_messages) + 1)
    IN broadcast([w EXCEPT !.chat_messages = IF stored THEN Append(@, doc) ELSE @],
                 id, room_id_of("chat"), chat_message(doc),
                 ExcludeOf("message", c), c, "frame", ok)

\* websocket_chat after insert_one: it raised (out of the loop), or it returned
\* and the event is broadcast to the whole room (lines 173-190)
after_insert(w, c, stored, ok) ==
    LET id == LastFrame(w.inbound, c)
        content == strip(Get(w.inbound[id].obj, "content", Str(<<>>)).chars)
        doc == message_doc(id, session[c].user, content, Len(w.chat_messages) + 1)
    IN IF ~stored THEN HandlerExit(w, c)
       ELSE broadcast([w EXCEPT !.chat_messages = Append(@, doc)], id,
                      room_id_of("chat"), chat_message(doc),
                      ExcludeOf("message", c), c, "frame", ok)

Init ==
    /\ active_connections = EmptyDict
    /\ user_presence = EmptyDict
    /\ connection_registry = EmptyDict
    /\ alive = [c \in Conns |-> TRUE]
    /\ pc = [c \in Conns |-> "idle"]
    /\ session = [c \in Conns |-> NoSession]
    /\ bc = EmptyDict
    /\ recv = [c \in Conns |-> <<>>]
    /\ presence_sent = [c \in Conns |-> {}]
    /\ calls = {}
    /\ nfaults = 0
    /\ budget = MaxOps
    /\ inbound = EmptyDict
    /\ chat_messages = <<>>
    /\ pongs = [c \in Conns |-> 0]
    /\ unicast = NoUnicast

\* In every action ok says whether the send_json of this step finds the transport
\* of its target up; a transport found broken stays broken.
Outcomes == IF nfaults < MaxFaults THEN BOOLEAN ELSE {TRUE}

\* one more client operation, within the bound
ClientOp == budget > 0 /\ budget' = budget - 1

\* inbound frames read so far, by all handlers
NFrames == Cardinality(DOMAIN inbound)

\* The two identities are interchangeable (nothing depends on which is which), so
\* the first connection opened takes user_default
CanonicalUser(user_id) ==
    user_id = "user_123" => \E o \in Conns : session[o].user = "user_default"

\* the client opens /ws/document/1 or /ws/chat/1: the handler resolves the user,
\* awaits accept, registers and announces (lines 54-67, 134-146)
Connect(c, kind, user_id, ok) ==
    /\ pc[c] = "idle"
    /\ CanonicalUser(user_id)
    /\ ClientOp
    /\ session' = [session EXCEPT ![c] = [kind |-> kind, user |-> user_id]]
    /\ Apply(connect(World, c, room_id_of(kind), user_id, user_name(user_id),
                     user_color(kind), ok))

\* accept raises (the client is gone): except, finally disconnect
AcceptFails(c) ==
    /\ pc[c] = "idle"
    /\ ClientOp
    /\ Apply(HandlerExit(World, c))
    /\ UNCHANGED session

\* the handler reads one frame and processes it (lines 74-114, 153-210)
ReceiveFrame(c, frame, ok) ==
    /\ pc[c] = "recv"
    /\ ClientOp
    /\ NFrames < MaxFrames
    /\ LET id == FrameId(inbound, c)
           w == [World EXCEPT !.inbound = DictSet(@, id, frame)]
       IN IF session[c].kind = "doc"
          THEN Apply(document_frame(w, c, id, frame, ok))
          ELSE Apply(chat_frame(w, c, id, frame, ok))
    /\ UNCHANGED session

\* db.chat_messages.insert_one completes, or fails when stored = FALSE
InsertDone(c, stored, ok) ==
    /\ pc[c] = "insert"
    /\ Apply(after_insert(World, c, stored, ok))
    /\ UNCHANGED <<session, budget>>

\* receive raises WebSocketDisconnect (the client closed, or the transport is
\* broken): except, finally disconnect (lines 116-121, 212-217)
ReceiveDisconnect(c) ==
    /\ pc[c] = "recv"
    /\ ClientOp
    /\ Apply(HandlerExit(World, c))
    /\ UNCHANGED session

\* a suspended broadcast is resumed after its send_json
BroadcastStep(b, ok) ==
    /\ bc[b].st = "run"
    /\ Apply(Resume(World, b, ok))
    /\ UNCHANGED <<session, budget>>

\* the event loop starts a user_left task: broadcast from line 122
TaskStart(b, ok) ==
    /\ bc[b].st = "new"
    /\ LET r == bc[b]
           w == World
       IN IF r.room \notin DOMAIN active_connections
          THEN Apply([w EXCEPT !.bc[b] = Ended(@, "returned")])
          ELSE Apply(Resume([w EXCEPT !.bc[b] =
                   BroadcastRecord(r.room, r.message, r.exclude, r.owner, r.ctx,
                                   "run", active_connections[r.room])], b, ok))
    /\ UNCHANGED <<session, budget>>

Next ==
    \/ \E c \in Conns, kind \in Kinds, user_id \in Users, ok \in Outcomes :
          Connect(c, kind, user_id, ok)
    \/ \E c \in Conns : AcceptFails(c)
    \/ \E c \in Conns, ok \in Outcomes :
          \E frame \in RelayedFrames(session[c].kind) : ReceiveFrame(c, frame, ok)
    \/ \E c \in Conns, ok \in Outcomes : InsertDone(c, TRUE, ok)
    \/ \E c \in Conns : ReceiveDisconnect(c)
    \/ \E b \in DOMAIN bc, ok \in Outcomes : BroadcastStep(b, ok)
    \/ \E b \in DOMAIN bc, ok \in Outcomes : TaskStart(b, ok)

\* A populated room: connections 1..NConn have opened the same endpoint one after
\* the other, each connect completing before the next began, and every handler is
\* waiting for a frame.  Connection 1 joined first, so the identities it left to
\* the others are any.
Joined(kind, users) ==
    LET room_id == room_id_of(kind)
    IN /\ active_connections = DictSet(EmptyDict, room_id, Conns)
       /\ user_presence = DictSet(EmptyDict, room_id,
              [u \in {users[c] : c \in Conns} |->
                  [name |-> user_name(u), color |-> user_color(kind),
                   status |-> "online"]])
       /\ connection_registry = [c \in Conns |-> <<room_id, users[c]>>]
       /\ alive = [c \in Conns |-> TRUE]
       /\ pc = [c \in Conns |-> "recv"]
       /\ session = [c \in Conns |-> [kind |-> kind, user |-> users[c]]]
       /\ bc = [b \in {JoinId(c) : c \in Conns} |->
                  Ended(BroadcastRecord(room_id,
                            user_joined(users[b[1]], user_name(users[b[1]]),
                                        user_color(kind)),
                            b[1], b[1], "join", "run", {}), "returned")]
       /\ recv = [c \in Conns |-> [i \in 1..(NConn - c) |-> JoinId(c + i)]]
       /\ presence_sent = [c \in Conns |-> {users[d] : d \in 1..c}]
       /\ calls = {}
       /\ nfaults = 0
       /\ budget = MaxRoomOps
       /\ inbound = EmptyDict
       /\ chat_messages = <<>>
       /\ pongs = [c \in Conns |-> 0]
       /\ unicast = NoUnicast

InitRoom ==
    \E kind \in Kinds, users \in [Conns -> Users] :
        /\ users[1] = "user_default"
        /\ Joined(kind, users)

\* The program from its construction, for MaxOps client operations, and from a
\* populated room, for MaxRoomOps more.
Spec == (Init \/ InitRoom) /\ [][Next]_vars

\* The populated room again, its clients now sending any frame of AllFrames and
\* the store failing or not.  Every connection is in use, so nobody joins.
NextRoom ==
    \/ \E c \in Conns, frame \in AllFrames, ok \in Outcomes :
          ReceiveFrame(c, frame, ok)
    \/ \E c \in Conns, stored \in BOOLEAN, ok \in Outcomes :
          InsertDone(c, stored, ok)
    \/ \E c \in Conns : ReceiveDisconnect(c)
    \/ \E b \in DOMAIN bc, ok \in Outcomes : BroadcastStep(b, ok)
    \/ \E b \in DOMAIN bc, ok \in Outcomes : TaskStart(b, ok)

SpecFrames == InitRoom /\ [][NextRoom]_vars

\* some code of the application calls manager.send_to_user(room, user, message)
SendToUser(kind, user_id, ok) ==
    /\ unicast.st = "none"
    /\ Apply(send_to_user(World, room_id_of(kind), user_id, ok))
    /\ UNCHANGED <<session, budget>>

\* the send_to_user call is resumed after its send_json
UnicastStep(ok) ==
    /\ unicast.st = "run"
    /\ Apply(UnicastResume(World, ok))
    /\ UNCHANGED <<session, budget>>

\* some code of the application calls manager.connect for a websocket that is
\* registered in another room, and accept returns.  (When accept raises, the call
\* ends there and no variable changes.)  One such call is made, for the identity
\* the websocket was opened by.
Rejoin(c, kind, user_id, ok) ==
    /\ c \in DOMAIN connection_registry
    /\ user_id = session[c].user
    /\ connection_registry[c][1] # room_id_of(kind)
    /\ \A o \in Conns : RejoinId(o) \notin DOMAIN bc
    /\ Apply(connect_registered(World, c, room_id_of(kind), user_id,
                                user_name(user_id), user_color(kind), ok))
    /\ UNCHANGED <<session, budget>>

\* The manager under calls that the two handlers do not make: the populated
\* room, its members disconnecting, and send_to_user and connect called directly.
NextManager ==
    \/ \E kind \in Kinds, user_id \in Users, ok \in Outcomes :
          SendToUser(kind, user_id, ok)
    \/ \E ok \in Outcomes : UnicastStep(ok)
    \/ \E c \in Conns, kind \in Kinds, user_id \in Users, ok \in Outcomes :
          Rejoin(c, kind, user_id, ok)
    \/ \E c \in Conns : ReceiveDisconnect(c)
    \/ \E b \in DOMAIN bc, ok \in Outcomes : BroadcastStep(b, ok)
    \/ \E b \in DOMAIN bc, ok \in Outcomes : TaskStart(b, ok)

SpecManager == InitRoom /\ [][NextManager]_vars

\* A populated room again, in which the transports of up to MaxBroken connections
\* have broken without the server having noticed yet: the next send_json to such
\* a connection raises.
RoomWithBroken(kind, users, broken) ==
    LET room_id == room_id_of(kind)
    IN /\ active_connections = DictSet(EmptyDict, room_id, Conns)
       /\ user_presence = DictSet(EmptyDict, room_id,
              [u \in {users[c] : c \in Conns} |->
                  [name |-> user_name(u), color |-> user_color(kind),
                   status |-> "online"]])
       /\ connection_registry = [c \in Conns |-> <<room_id, users[c]>>]
       /\ alive = [c \in Conns |-> c \notin broken]
       /\ pc = [c \in Conns |-> "recv"]
       /\ session = [c \in Conns |-> [kind |-> kind, user |-> users[c]]]
       /\ bc = [b \in {JoinId(c) : c \in Conns} |->
                  Ended(BroadcastRecord(room_id,
                            user_joined(users[b[1]], user_name(users[b[1]]),
                                        user_color(kind)),
                            b[1], b[1], "join", "run", {}), "returned")]
       /\ recv = [c \in Conns |-> [i \in 1..(NConn - c) |-> JoinId(c + i)]]
       /\ presence_sent = [c \in Conns |-> {users[d] : d \in 1..c}]
       /\ calls = {}
       /\ nfaults = Cardinality(broken)
       /\ budget = MaxRoomOps
       /\ inbound = EmptyDict
       /\ chat_messages = <<>>
       /\ pongs = [c \in Conns |-> 0]
       /\ unicast = NoUnicast

InitBroken ==
    \E kind \in Kinds, users \in [Conns -> Users], broken \in SUBSET Conns :
        /\ users[1] = "user_default"
        /\ Cardinality(broken) <= MaxBroken
        /\ RoomWithBroken(kind, users, broken)

\* nobody joins: the members send well-formed frames or disconnect, and the event
\* loop runs the broadcasts and the user_left tasks
NextNoJoin ==
    \/ \E c \in Conns, ok \in Outcomes :
          \E frame \in RelayedFrames(session[c].kind) : ReceiveFrame(c, frame, ok)
    \/ \E c \in Conns, ok \in Outcomes : InsertDone(c, TRUE, ok)
    \/ \E c \in Conns : ReceiveDisconnect(c)
    \/ \E b \in DOMAIN bc, ok \in Outcomes : BroadcastStep(b, ok)
    \/ \E b \in DOMAIN bc, ok \in Outcomes : TaskStart(b, ok)

SpecBroken == InitBroken /\ [][NextNoJoin]_vars

\* ================================================================ properties

InLog(log, b) == \E i \in DOMAIN log : log[i] = b

Count(log, b) == Cardinality({i \in DOMAIN log : log[i] = b})

IndexOf(log, b) == CHOOSE i \in DOMAIN log : log[i] = b

\* the connections registered in room_id, and their identities
MembersOf(room_id) ==
    {c \in DOMAIN connection_registry : connection_registry[c][1] = room_id}

IdentitiesOf(room_id) == {connection_registry[c][2] : c \in MembersOf(room_id)}

PresenceOf(room_id) ==
    IF room_id \in DOMAIN user_presence THEN DOMAIN user_presence[room_id] ELSE {}

Running(b) == b \in DOMAIN bc /\ bc[b].st = "run"

\* this step is the one in which broadcast b, suspended until now, ends
Ends(b) == Running(b) /\ bc'[b].st \in {"returned", "raised"}

\* no connect, disconnect or broadcast is under way
Quiescent ==
    /\ \A c \in Conns : pc[c] \in {"idle", "recv", "closed"}
    /\ \A b \in DOMAIN bc : bc[b].st \in {"returned", "raised"}

\* ---------------------------------------------------------------------- C1
\* C1: when a broadcast ends, every connection that was in the room when it
\* started and is still registered, other than the excluded one and those whose
\* delivery failed, has received the message - whatever joined or left meanwhile.
C1_StayersReceive ==
    [][\A b \in DOMAIN bc :
          Ends(b) =>
            \A c \in (bc[b].stay \cap DOMAIN connection_registry') \ bc[b].dead :
                c # bc[b].exclude => InLog(recv'[c], b)]_vars

\* ---------------------------------------------------------------------- C2
\* C2: at every quiescent point the presence table of a room holds exactly the
\* identities that have at least one connection registered in that room.
C2_PresenceExact ==
    Quiescent => \A room_id \in Rooms : PresenceOf(room_id) = IdentitiesOf(room_id)

\* ---------------------------------------------------------------------- C3
\* C3: a connection is in the set of room r iff the registry maps it to r (so it
\* is in at most one room), and the health query's total is the number of
\* registry entries - in every state, suspended broadcasts or not.
C3_IndexLockstep ==
    /\ \A room_id \in DOMAIN active_connections :
          active_connections[room_id] = MembersOf(room_id)
    /\ \A c \in DOMAIN connection_registry :
          /\ connection_registry[c][1] \in DOMAIN active_connections
          /\ c \in active_connections[connection_registry[c][1]]
    /\ \A r1, r2 \in DOMAIN active_connections :
          r1 # r2 => active_connections[r1] \cap active_connections[r2] = {}
    /\ websocket_health.total_connections = Cardinality(DOMAIN connection_registry)

\* two rooms are populated while a broadcast is suspended and a connection has
\* already been deregistered
C3_Witness ==
    /\ Cardinality(DOMAIN active_connections) = 2
    /\ \E b \in DOMAIN bc : Running(b)
    /\ \E e \in calls : e.registered

\* ---------------------------------------------------------------------- C4
\* C4: a broadcast during which nobody joined or left its room returns, and has
\* made exactly one delivery to every member other than the excluded one (a
\* delivery that fails only where the transport is broken) and none to anyone
\* else; a broadcast that finds no room or nobody to deliver to returns at once,
\* delivers nothing and leaves the tables as they were.
C4_FanOut ==
    [][\A b \in DOMAIN bc' :
          /\ (Ends(b) /\ ~bc[b].disturbed) =>
                LET targets == bc[b].stay \ {bc[b].exclude}
                IN /\ bc'[b].st = "returned"
                   /\ bc[b].dead \subseteq targets
                   /\ \A c \in Conns :
                         Count(recv'[c], b) =
                            IF c \in targets \ bc[b].dead THEN 1 ELSE 0
          /\ ((b \notin DOMAIN bc \/ bc[b].st = "new")
                 /\ bc'[b].st \in {"returned", "raised"}) =>
                /\ bc'[b].st = "returned"
                /\ \A c \in Conns : ~InLog(recv'[c], b)
                /\ b[2] # 0 =>
                      /\ active_connections' = active_connections
                      /\ user_presence' = user_presence
                      /\ connection_registry' = connection_registry
                /\ b[2] > 0 => pc'[b[1]] = "recv"]_vars

\* a relayed frame whose sender is registered and excluded has returned, and the
\* other NConn - 1 members of the room, and only they, have received it
C4_Witness ==
    \E b \in DOMAIN bc :
        /\ b[2] > 0 /\ bc[b].st = "returned" /\ bc[b].exclude = b[1]
        /\ MembersOf(bc[b].room) = Conns
        /\ {c \in Conns : InLog(recv[c], b)} = Conns \ {b[1]}

\* ---------------------------------------------------------------------- C5
\* C5: when delivery to B failed during a broadcast, then at the end of that
\* broadcast B is deregistered, nobody else is, the broadcasting handler is not
\* terminated, and every other non-excluded member that is still registered has
\* received the message.
C5_EvictionIsolated ==
    [][\A b \in DOMAIN bc :
          (Ends(b) /\ bc[b].dead # {}) =>
             /\ bc[b].dead \cap DOMAIN connection_registry' = {}
             /\ (DOMAIN connection_registry) \ (DOMAIN connection_registry')
                   \subseteq bc[b].dead
             /\ (bc[b].owner # NoConn /\ bc[b].owner \notin bc[b].dead) =>
                   pc'[bc[b].owner] # "closed"
             /\ \A c \in (bc[b].stay \cap DOMAIN connection_registry') \ bc[b].dead :
                   c # bc[b].exclude => InLog(recv'[c], b)]_vars

\* ---------------------------------------------------------------------- C6
\* C6: no room key maps to an empty connection set or an empty presence map; a
\* room with no registered connection is a key of neither table, and the number
\* of active rooms the health query reports is the number of rooms with members.
C6_RoomsCollected ==
    /\ \A room_id \in DOMAIN active_connections : active_connections[room_id] # {}
    /\ \A room_id \in DOMAIN user_presence : DOMAIN user_presence[room_id] # {}
    /\ \A room_id \in Rooms :
          MembersOf(room_id) = {} =>
             /\ room_id \notin DOMAIN active_connections
             /\ room_id \notin DOMAIN user_presence
    /\ websocket_health.active_rooms =
          Cardinality({room_id \in Rooms : MembersOf(room_id) # {}})

\* the last connection of a room has been evicted, and the room is gone
C6_Witness ==
    \E e \in calls :
        /\ e.registered /\ ~e.others /\ e.via = "evict"
        /\ room_id_of(session[e.conn].kind) \notin DOMAIN active_connections
        /\ room_id_of(session[e.conn].kind) \notin DOMAIN user_presence

\* ---------------------------------------------------------------------- C7
\* C7: a disconnect call for a connection that is not in the registry changes
\* none of the three tables and schedules no user_left; a connection is found
\* registered by at most one disconnect call, and gets at most one user_left.
C7_DoubleCloseNoop ==
    /\ \A e \in calls : ~e.registered => (~e.changed /\ ~e.announced)
    /\ \A e1, e2 \in calls :
          (e1.conn = e2.conn /\ e1.registered /\ e2.registered) => e1 = e2
    /\ \A b \in DOMAIN bc : b[2] >= -1

\* the handler's final disconnect came after the eviction of its connection
C7_Witness ==
    \E e1, e2 \in calls :
        /\ e1.conn = e2.conn
        /\ e1.via = "evict" /\ e1.registered
        /\ e2.via = "final" /\ ~e2.registered

\* ---------------------------------------------------------------------- C8
\* C8: a disconnect schedules user_left only when the connection removed was the
\* last one of its identity in the room, and always does when it was the last one
\* and other members remain.
C8_LeftOnlyWhenLast ==
    \A e \in calls :
        e.registered =>
           /\ e.announced => e.last
           /\ (e.last /\ e.others) => e.announced

\* ---------------------------------------------------------------------- C9
\* C9: every connection receives the relays of one sender's frames in the order
\* in which that sender's handler read the frames.
C9_PerSenderOrder ==
    \A c \in Conns : \A i, j \in DOMAIN recv[c] :
        (/\ i < j
         /\ recv[c][i][1] = recv[c][j][1]
         /\ recv[c][i][2] > 0 /\ recv[c][j][2] > 0)
        => recv[c][i][2] < recv[c][j][2]

\* a connection has received the relays of both frames of another sender
C9_Witness ==
    \E c, s \in Conns :
        /\ c # s
        /\ InLog(recv[c], <<s, 1>>) /\ InLog(recv[c], <<s, 2>>)

\* --------------------------------------------------------------------- C10
\* C10: any two connections that both received the same two broadcasts of a room
\* received them in the same relative order.
C10_RoomTotalOrder ==
    \A c1, c2 \in Conns : \A i1, j1 \in DOMAIN recv[c1] :
        (i1 < j1 /\ InLog(recv[c2], recv[c1][i1]) /\ InLog(recv[c2], recv[c1][j1]))
        => IndexOf(recv[c2], recv[c1][i1]) < IndexOf(recv[c2], recv[c1][j1])

\* ================================================== properties of the frames

\* the frame is a chat message with a body: the handler calls the store for it
IsChatMessage(b) ==
    /\ b \in DOMAIN inbound
    /\ session[b[1]].kind = "chat"
    /\ inbound[b].json = "object"
    /\ Get(inbound[b].obj, "type", None) = "message"
    /\ Get(inbound[b].obj, "content", Str(<<>>)).t = "str"
    /\ strip(Get(inbound[b].obj, "content", Str(<<>>)).chars) # <<>>

\* the documents the store holds for frame b
Persisted(b) == {i \in DOMAIN chat_messages : chat_messages[i].timestamp = b}

\* this step is the one in which the store call made for c's frame ends in failure
AppendFails(c) ==
    pc[c] = "insert" /\ pc'[c] # "insert" /\ chat_messages' = chat_messages

\* --------------------------------------------------------------------- C11
\* C11: every chat message event broadcast is the event of a document the store
\* holds, appended before any delivery, and carries the id the store gave it; a
\* chat frame whose append failed is never delivered to any connection, and
\* nothing is delivered in the step in which its append fails.
C11_OnlyPersistedBroadcast ==
    [][/\ \A b \in DOMAIN bc' :
            bc'[b].type = "message" =>
               \E i \in DOMAIN chat_messages' :
                  /\ chat_messages'[i]._id = i
                  /\ chat_messages'[i].timestamp = b
                  /\ bc'[b].message = chat_message(chat_messages'[i])
                  /\ bc'[b].message.data.id = <<"str", i>>
                  /\ (\E c \in Conns : InLog(recv[c], b)) => i \in DOMAIN chat_messages
       /\ \A c \in Conns :
            AppendFails(c) =>
               /\ recv' = recv
               /\ LastFrame(inbound, c) \notin DOMAIN bc'
       /\ \A b \in DOMAIN inbound, c \in Conns :
            (IsChatMessage(b) /\ Persisted(b) = {}) => ~InLog(recv[c], b)]_vars

\* one chat message was persisted and has been delivered, and the append of
\* another has failed
C11_Witness ==
    \E b1, b2 \in DOMAIN inbound :
        /\ IsChatMessage(b1) /\ Persisted(b1) # {}
        /\ \E c \in Conns : InLog(recv[c], b1)
        /\ IsChatMessage(b2) /\ Persisted(b2) = {} /\ pc[b2[1]] = "closed"

\* --------------------------------------------------------------------- C12
\* C12: when the store append for a chat frame fails, the sender is sent a
\* response, stays registered in its room, no user_left is scheduled, and the
\* handler is back at reading the sender's next frame.
C12_AppendFaultSurvived ==
    [][\A c \in Conns :
          AppendFails(c) =>
             /\ Len(recv'[c]) + pongs'[c] > Len(recv[c]) + pongs[c]
             /\ c \in DOMAIN connection_registry => c \in DOMAIN connection_registry'
             /\ DOMAIN bc' = DOMAIN bc
             /\ pc'[c] = "recv"]_vars

\* --------------------------------------------------------------------- C13
\* C13: when the broadcast of a persisted chat message ends, nobody was excluded
\* from it, its event carries the sender's identity, the trimmed body and the id
\* and timestamp of the stored document, and every connection registered in the
\* room throughout, the sender's included, has received it once.
C13_ChatEcho ==
    [][\A b \in DOMAIN bc :
          (Ends(b) /\ bc[b].type = "message") =>
             /\ bc[b].exclude = NoConn
             /\ bc[b].message.data.user_id = session[b[1]].user
             /\ bc[b].message.data.content =
                   strip(Get(inbound[b].obj, "content", Str(<<>>)).chars)
             /\ \E i \in Persisted(b) :
                   /\ bc[b].message.data.id = <<"str", chat_messages[i]._id>>
                   /\ bc[b].message.data.timestamp =
                         <<"isoformat", chat_messages[i].timestamp>>
             /\ \A c \in (bc[b].stay \cap DOMAIN connection_registry') \ bc[b].dead :
                   Count(recv'[c], b) = 1]_vars

\* --------------------------------------------------------------------- C14
\* C14: when the last connection of an identity was removed from a room in which
\* others remained, the user_left broadcast made for it does not end before
\* every connection that stays registered in the room has received it, and it
\* is never delivered to the removed connection.
C14_LeftReachesStayers ==
    [][\A b \in DOMAIN bc :
          (/\ Ends(b)
           /\ bc[b].type = "user_left"
           /\ \E e \in calls : e.conn = b[1] /\ e.registered /\ e.last /\ e.others)
          => /\ \A c \in (bc[b].stay \cap DOMAIN connection_registry') \ bc[b].dead :
                   InLog(recv'[c], b)
             /\ ~InLog(recv'[b[1]], b)]_vars

\* --------------------------------------------------------------------- C15
\* this step is the one in which the user_joined broadcast of c's connect ends
JoinEnds(c) ==
    /\ JoinId(c) \in DOMAIN bc'
    /\ bc'[JoinId(c)].st \in {"returned", "raised"}
    /\ JoinId(c) \notin DOMAIN bc \/ Running(JoinId(c))

\* C15: when the announcement of c's join ends and c's transport is healthy, the
\* connections registered in the room since before the join have each received
\* one user_joined for it, c has received none, and c has received a presence
\* frame naming exactly the identities with a connection registered in the room
\* at that moment, its own among them; its handler is reading frames.
C15_JoinProtocol ==
    [][\A c \in Conns :
          (JoinEnds(c) /\ alive'[c]) =>
             LET b == JoinId(c)
                 room_id == room_id_of(session'[c].kind)
                 members == {o \in DOMAIN connection_registry' :
                                connection_registry'[o][1] = room_id}
             IN /\ pc'[c] = "recv"
                /\ c \in members
                /\ presence_sent'[c] = {connection_registry'[o][2] : o \in members}
                /\ ~InLog(recv'[c], b)
                /\ Running(b) =>
                      \A o \in (bc[b].stay \cap members) \ (bc[b].dead \cup {c}) :
                          Count(recv'[o], b) = 1]_vars

\* --------------------------------------------------------------------- C16
\* C16: delivery to one connection does not wait for delivery to another: while a
\* broadcast is suspended in the send to one connection, which may be slow or
\* never complete, every other non-excluded member of the room has already been
\* sent the message.
C16_IndependentDelivery ==
    \A b \in DOMAIN bc :
        Running(b) =>
           \A c \in active_connections[bc[b].room] \ {bc[b].exclude, bc[b].pos} :
               InLog(recv[c], b) \/ c \in bc[b].dead

\* ---------------------------------------------------------- C17, C18, C19
\* this step is the one in which c's handler reads a frame
Reads(c) == FrameId(inbound, c) \in DOMAIN inbound' \ DOMAIN inbound

\* the frame c's handler reads in this step
FrameRead(c) == inbound'[FrameId(inbound, c)]

\* text that is not JSON, JSON that is not an object, or a chat message whose
\* content is not text
Malformed(frame) ==
    \/ frame.json # "object"
    \/ /\ Get(frame.obj, "type", None) = "message"
       /\ Get(frame.obj, "content", Str(<<>>)).t # "str"

\* the types the dispatch of each endpoint names (lines 80, 84, 93; 156, 194, 205)
AcceptedTypes(kind) ==
    IF kind = "doc" THEN {"sync", "awareness", "cursor"}
    ELSE {"message", "typing", "ping"}

\* the three tables of the manager are left as they were by this step
TablesUnchanged ==
    /\ active_connections' = active_connections
    /\ user_presence' = user_presence
    /\ connection_registry' = connection_registry

\* C17: a handler that reads a malformed frame is not ended by it, and its
\* connection stays registered.
C17_MalformedSurvived ==
    [][\A c \in Conns :
          (Reads(c) /\ Malformed(FrameRead(c))) =>
             /\ pc'[c] # "closed"
             /\ c \in DOMAIN connection_registry => c \in DOMAIN connection_registry']_vars

\* C18: a frame that is a JSON object whose type the endpoint does not accept
\* (or that has no type) is dropped: nothing is delivered or scheduled, the store
\* is not called, the three tables are unchanged, and the handler is back at
\* reading the next frame.
C18_UnknownTypeDropped ==
    [][\A c \in Conns :
          (/\ Reads(c)
           /\ FrameRead(c).json = "object"
           /\ Get(FrameRead(c).obj, "type", None) \notin AcceptedTypes(session[c].kind))
          => /\ recv' = recv /\ pongs' = pongs /\ presence_sent' = presence_sent
             /\ bc' = bc
             /\ chat_messages' = chat_messages
             /\ TablesUnchanged
             /\ calls' = calls
             /\ pc'[c] = "recv"]_vars

\* a registered connection had a frame of a type its endpoint does not accept
\* dropped, and its next frame has been read and relayed
C18_Witness ==
    \E c \in DOMAIN connection_registry :
        /\ <<c, 1>> \in DOMAIN inbound /\ <<c, 2>> \in DOMAIN inbound
        /\ inbound[<<c, 1>>].json = "object"
        /\ Get(inbound[<<c, 1>>].obj, "type", None) \notin AcceptedTypes(session[c].kind)
        /\ <<c, 1>> \notin DOMAIN bc
        /\ <<c, 2>> \in DOMAIN bc

\* C19: a ping read on the chat endpoint, the pinging transport being up, is
\* answered with one pong to the pinging connection and none to any other;
\* nothing is delivered or scheduled for it, nothing is persisted, the three
\* tables are unchanged, and the handler is back at reading the next frame.
C19_PingPong ==
    [][\A c \in Conns :
          (/\ Reads(c)
           /\ session[c].kind = "chat"
           /\ FrameRead(c).json = "object"
           /\ Get(FrameRead(c).obj, "type", None) = "ping"
           /\ alive'[c])
          => /\ pongs' = [pongs EXCEPT ![c] = @ + 1]
             /\ recv' = recv
             /\ bc' = bc
             /\ chat_messages' = chat_messages
             /\ TablesUnchanged
             /\ pc'[c] = "recv"]_vars

\* a connection of a full chat room has been answered one pong, and nobody else
C19_Witness ==
    \E c \in Conns :
        /\ pongs = [o \in Conns |-> IF o = c THEN 1 ELSE 0]
        /\ MembersOf(room_id_of("chat")) = Conns
        /\ \E b \in DOMAIN inbound : b[1] = c /\ Get(inbound[b].obj, "type", None) = "ping"

\* --------------------------------------------------------------------- C20
\* C20: when the broadcast of a sync frame ends, its message is the object the
\* sender submitted, field for field, the sender has not received it, and every
\* other connection registered in the room throughout has received it once.
C20_SyncVerbatim ==
    [][\A b \in DOMAIN bc :
          (Ends(b) /\ bc[b].type = "sync") =>
             /\ bc[b].message = inbound[b].obj
             /\ ~InLog(recv'[b[1]], b)
             /\ \A c \in (bc[b].stay \cap DOMAIN connection_registry')
                           \ (bc[b].dead \cup {b[1]}) :
                   Count(recv'[c], b) = 1]_vars

\* --------------------------------------------------------------------- C21
\* C21: when the broadcast of a document frame that is not JSON ends, its
\* message is a binary_update carrying the frame as it was read, the sender has
\* not received it, every other connection registered in the room throughout has
\* received it once, and the sender's session goes on.
C21_OpaqueRelayed ==
    [][\A b \in DOMAIN bc :
          (Ends(b) /\ bc[b].type = "binary_update") =>
             /\ bc[b].message = [type |-> "binary_update", data |-> inbound[b]]
             /\ inbound[b].json = "invalid"
             /\ ~InLog(recv'[b[1]], b)
             /\ \A c \in (bc[b].stay \cap DOMAIN connection_registry')
                           \ (bc[b].dead \cup {b[1]}) :
                   Count(recv'[c], b) = 1
             /\ pc'[b[1]] = "recv"]_vars

\* --------------------------------------------------------------------- C22
\* C22: the document room and the chat room of the same subject are two rooms,
\* and every connection is registered in the room of its own endpoint.  A
\* broadcast to room r is delivered only to a connection registered in r when it
\* is delivered, which is a connection of the endpoint the broadcast came from;
\* the presence frame sent to a connection names identities of its room only.
C22_RoomIsolation ==
    [][/\ room_id_of("doc") # room_id_of("chat")
       /\ \A c \in DOMAIN connection_registry :
             connection_registry[c][1] = room_id_of(session[c].kind)
       /\ \A c \in Conns :
             Len(recv'[c]) > Len(recv[c]) =>
                LET b == recv'[c][Len(recv'[c])]
                IN /\ c \in DOMAIN connection_registry
                   /\ connection_registry[c][1] = bc'[b].room
                   /\ c \in DOMAIN connection_registry'
                   /\ connection_registry'[c][1] = bc'[b].room
                   /\ session[c].kind = session'[b[1]].kind
       /\ \A c \in Conns :
             presence_sent'[c] # presence_sent[c] =>
                /\ c \in DOMAIN connection_registry'
                /\ presence_sent'[c] = DOMAIN user_presence'[connection_registry'[c][1]]
                /\ presence_sent'[c] \subseteq
                      {session'[o].user : o \in {x \in Conns :
                                                   session'[x].kind = session'[c].kind}}]_vars

\* both rooms have members; a broadcast to one room has returned, delivered to a
\* member of that room, and a member of the other room has received nothing
C22_Witness ==
    \E b \in DOMAIN bc, c1, c2 \in DOMAIN connection_registry :
        /\ bc[b].st = "returned"
        /\ InLog(recv[c1], b)
        /\ connection_registry[c1][1] = bc[b].room
        /\ connection_registry[c2][1] # bc[b].room
        /\ recv[c2] = <<>>
        /\ presence_sent[c2] # {}

\* --------------------------------------------------------------------- C23
\* C23: a connection leaves the registry only in a step in which its own client
\* disconnected (its handler was reading and read no frame), or when its own
\* transport is broken - found so by an earlier delivery or by the send of this
\* step.  Nothing another connection does ends a healthy session.
C23_OnlyOwnFaultCloses ==
    [][\A c \in DOMAIN connection_registry :
          c \notin DOMAIN connection_registry' =>
             \/ pc[c] = "recv" /\ inbound' = inbound
             \/ ~alive[c]
             \/ nfaults' > nfaults]_vars

\* --------------------------------------------------------------------- C24
\* C24: a connection whose handler has ended, for whatever reason, or that a
\* broadcast has evicted after a failed delivery, is in no room's connection set
\* and not in the registry, in that state and in every later one.
C24_DestroyedUnreachable ==
    \A c \in Conns :
        (pc[c] = "closed" \/ \E e \in calls : e.conn = c /\ e.via = "evict") =>
           /\ c \notin DOMAIN connection_registry
           /\ \A room_id \in DOMAIN active_connections :
                 c \notin active_connections[room_id]

\* one registered connection was removed by the end of its handler, another was
\* evicted while its handler is still running, and a third is still registered
C24_Witness ==
    \E e1, e2 \in calls :
        /\ e1.via = "final" /\ e1.registered /\ pc[e1.conn] = "closed"
        /\ e2.via = "evict" /\ e2.registered /\ pc[e2.conn] # "closed"
        /\ connection_registry # EmptyDict

\* --------------------------------------------------------------------- C25
\* the user_left announcements scheduled so far
LeftAnnouncements == {b \in DOMAIN bc : b[2] < 0}

\* what a broadcast has left to do: a task not yet started has its whole loop
\* ahead, a running broadcast the connections after its cursor and its return
Work(r) ==
    CASE r.st = "new" -> NConn + 2
      [] r.st = "run" -> 1 + Cardinality({c \in Conns : c > r.pos})
      [] OTHER -> 0

RECURSIVE TotalWork(_, _)
TotalWork(bcs, ids) ==
    IF ids = {} THEN 0
    ELSE LET b == CHOOSE x \in ids : TRUE
         IN Work(bcs[b]) + TotalWork(bcs, ids \ {b})

\* this step is one of the event loop: no client acted and the store did not
LoopStep == budget' = budget /\ chat_messages' = chat_messages

\* C25: the chain broadcast - failed delivery - eviction - user_left broadcast
\* ends: every step in which the event loop resumes a broadcast or starts a task
\* either removes a connection from the registry or leaves the registry as it is
\* and reduces the work the broadcasts have left, so that with nobody joining
\* the steps run out.  A connection is never registered again and so is removed
\* at most once; from the moment its user_left is scheduled it is in no room's
\* set and not in the registry; there are at most as many user_left
\* announcements as connections removed.
C25_EvictionBounded ==
    [][/\ LoopStep =>
             LET n == Cardinality(DOMAIN connection_registry)
                 m == Cardinality(DOMAIN connection_registry')
             IN \/ m < n
                \/ m = n /\ TotalWork(bc', DOMAIN bc') < TotalWork(bc, DOMAIN bc)
       /\ DOMAIN connection_registry' \subseteq DOMAIN connection_registry
       /\ \A e \in calls' \ calls :
             e.registered => e.conn \in (DOMAIN connection_registry)
                                          \ DOMAIN connection_registry'
       /\ \A b \in {x \in DOMAIN bc' : x[2] < 0} :
             /\ b[1] \in {e.conn : e \in {x \in calls' : x.registered}}
             /\ b[1] \notin DOMAIN connection_registry'
             /\ \A room_id \in DOMAIN active_connections' :
                   b[1] \notin active_connections'[room_id]
       /\ Cardinality({x \in DOMAIN bc' : x[2] < 0})
             <= Cardinality({e.conn : e \in {x \in calls' : x.registered}})]_vars

\* one frame was relayed and nothing else; a delivery of its broadcast failed and
\* evicted a connection, the user_left scheduled for that one was undeliverable
\* to the frame's sender and evicted it, and the user_left of the sender has been
\* delivered as well: the chain has run two evictions deep and has ended
C25_Witness ==
    \E s, c, o \in Conns :
        /\ DOMAIN inbound = {<<s, 1>>}
        /\ c # s
        /\ \E e \in calls : e.conn = c /\ e.via = "evict" /\ e.registered
        /\ \E e \in calls : e.conn = s /\ e.via = "evict" /\ e.registered
        /\ LeftAnnouncements = {<<c, -1>>, <<s, -1>>}
        /\ \A b \in DOMAIN bc : bc[b].st = "returned"
        /\ InLog(recv[o], <<c, -1>>) /\ InLog(recv[o], <<s, -1>>)

\* --------------------------------------------------------------------- C27
\* C27: a connection that a disconnect call has removed from the registry is
\* never registered again, and a frame its handler reads after the removal is
\* not relayed to anybody (no broadcast is made for it) and not handed to the
\* store.
C27_ClosedIsTerminal ==
    [][/\ \A c \in (DOMAIN connection_registry') \ DOMAIN connection_registry :
             \A e \in calls : e.conn # c
       /\ \A c \in Conns :
             (Reads(c) /\ c \notin DOMAIN connection_registry) =>
                /\ recv' = recv
                /\ FrameId(inbound, c) \notin DOMAIN bc'
                /\ pc'[c] # "insert"]_vars

\* --------------------------------------------------------------------- C28
\* text made of spaces only, or empty
Blank(text) == \A i \in DOMAIN text : text[i] = " "

\* the frame is a chat message whose body is text and is not blank
HasBody(kind, frame) ==
    /\ kind = "chat"
    /\ frame.json = "object"
    /\ Get(frame.obj, "type", None) = "message"
    /\ Get(frame.obj, "content", Str(<<>>)).t = "str"
    /\ ~Blank(Get(frame.obj, "content", Str(<<>>)).chars)

\* C28: the handler calls the store for a frame exactly when the frame is a chat
\* message with a non-blank body, and once: the store gains a document only in
\* the step that ends such a call, one document, made for that frame.  A chat
\* message with a blank body is neither stored nor broadcast and the handler
\* reads on; typing, ping, unknown types and every document frame are never
\* stored.
C28_StoreOncePerMessage ==
    [][/\ \A c \in Conns :
             Reads(c) =>
                /\ pc'[c] = "insert" <=> HasBody(session[c].kind, FrameRead(c))
                /\ chat_messages' = chat_messages
                /\ (/\ session[c].kind = "chat"
                    /\ FrameRead(c).json = "object"
                    /\ Get(FrameRead(c).obj, "type", None) = "message"
                    /\ Get(FrameRead(c).obj, "content", Str(<<>>)).t = "str"
                    /\ Blank(Get(FrameRead(c).obj, "content", Str(<<>>)).chars))
                   => /\ bc' = bc /\ recv' = recv
                      /\ TablesUnchanged
                      /\ pc'[c] = "recv"
       /\ chat_messages' # chat_messages =>
             \E c \in Conns :
                /\ pc[c] = "insert" /\ pc'[c] # "insert"
                /\ Len(chat_messages') = Len(chat_messages) + 1
                /\ SubSeq(chat_messages', 1, Len(chat_messages)) = chat_messages
                /\ chat_messages'[Len(chat_messages')].timestamp = LastFrame(inbound, c)
                /\ Persisted(LastFrame(inbound, c)) = {}
                /\ HasBody(session[c].kind, inbound[LastFrame(inbound, c)])
       /\ \A c \in Conns :
             (pc[c] = "insert" /\ pc'[c] # "insert") =>
                Cardinality(DOMAIN chat_messages') <= Cardinality(DOMAIN chat_messages) + 1]_vars

\* a connection sent a chat message with a whitespace-only body, which was not
\* stored, and then one with a body, which was stored once
C28_Witness ==
    \E c \in DOMAIN connection_registry :
        /\ <<c, 1>> \in DOMAIN inbound /\ <<c, 2>> \in DOMAIN inbound
        /\ Get(inbound[<<c, 1>>].obj, "type", None) = "message"
        /\ Get(inbound[<<c, 1>>].obj, "content", Str(<<>>)) = Str(<<" ">>)
        /\ Persisted(<<c, 1>>) = {}
        /\ HasBody("chat", inbound[<<c, 2>>])
        /\ Cardinality(Persisted(<<c, 2>>)) = 1
        /\ Len(chat_messages) = 1

\* --------------------------------------------------------------------- C30
\* C30: in every state each identity in the presence map of a room has at least
\* one connection registered in that room, and every room that has a presence
\* map has a connection set.
C30_PresenceHasConnection ==
    /\ \A room_id \in DOMAIN user_presence :
          /\ room_id \in DOMAIN active_connections
          /\ \A user_id \in DOMAIN user_presence[room_id] :
                \E c \in DOMAIN connection_registry :
                    connection_registry[c] = <<room_id, user_id>>
    /\ \A room_id \in Rooms : PresenceOf(room_id) \subseteq IdentitiesOf(room_id)

\* the only connection of an identity has been removed from a room in which
\* another identity stays: a presence entry was deleted and another is kept
C30_Witness ==
    \E e \in calls :
        /\ e.registered /\ e.last /\ e.others
        /\ \E room_id \in DOMAIN user_presence :
              /\ session[e.conn].user \notin DOMAIN user_presence[room_id]
              /\ room_id = room_id_of(session[e.conn].kind)
              /\ DOMAIN user_presence[room_id] # {}

C29_Unicast ==
    [][/\ (unicast.st = "run" /\ unicast'.st # "run") =>
             /\ unicast'.st = "returned"
             /\ unicast'.sent \subseteq unicast'.targets
             /\ \A c \in unicast'.targets \cap DOMAIN connection_registry' :
                   c \in unicast'.sent
             /\ unicast'.failed \cap DOMAIN connection_registry' = {}
             /\ \A e \in calls' : e.via = "unicast" => e.conn \in unicast'.failed
       /\ (unicast.st = "none" /\ unicast'.st # "none"
             /\ unicast'.room \notin DOMAIN active_connections) =>
             /\ unicast'.st = "returned" /\ unicast'.sent = {}
             /\ TablesUnchanged /\ bc' = bc /\ calls' = calls]_vars

====
